---- MODULE Spec2Model ----
(***************************************************************************)
(* Model of openwisp_radius/api/views.py: the organization-token          *)
(* authentication (TokenAuthentication), the organization scoping of the   *)
(* freeradius views and the slug-dispatched account views.                 *)
(*                                                                         *)
(* Strings are sequences of atoms; an atom is a pair <<kind, n>>.  The     *)
(* uuid of organization o is the one-atom string <<"org", o>>, a token is   *)
(* the one-atom string <<"tok", t>>.  Python's None is the one-atom string  *)
(* <<"none", 0>>, which no request can spell.                               *)
(***************************************************************************)
EXTENDS Integers, Sequences, FiniteSets, TLC

\* ------------------------------------------------------------------ bounds
NumOrgs == 2
NumTokens == 2
MaxParts == 3
NumWorkers == 2

Orgs == 1..NumOrgs
TokenIds == 1..NumTokens
Usernames == {"alice", "bob"}
Passwords == {"pw1", "pw2"}
Sessions == {"s1", "s2"}

\* ----------------------------------------------------------------- strings
None == << <<"none", 0>> >>
EmptyStr == << >>
SP == <<"sp", 0>>
Scheme == << <<"scheme", 0>> >>
Uuid(o) == << <<"org", o>> >>
Tok(t) == << <<"tok", t>> >>
\* a well-formed uuid that belongs to no organization
UnknownUuid == Uuid(0)

\* Python truthiness of an optional string: None and '' are falsy
Falsy(s) == s = None \/ s = EmptyStr

RECURSIVE SplitFrom(_, _, _, _)
SplitFrom(s, i, cur, acc) ==
    IF i > Len(s) THEN Append(acc, cur)
    ELSE IF s[i] = SP THEN SplitFrom(s, i + 1, EmptyStr, Append(acc, cur))
    ELSE SplitFrom(s, i + 1, Append(cur, s[i]), acc)

\* str.split(' '): the parts between single spaces, empty parts kept
Split(s) == SplitFrom(s, 1, EmptyStr, << >>)

RECURSIVE Join(_)
\* ' '.join(words)
Join(ws) ==
    IF Len(ws) = 0 THEN EmptyStr
    ELSE IF Len(ws) = 1 THEN ws[1]
    ELSE ws[1] \o <<SP>> \o Join(Tail(ws))

\* ------------------------------------------------------------------- state
VARIABLES
    token,       \* OrganizationRadiusSettings: organization -> token
    cache,       \* django cache: key (string) -> value (string)
    users,       \* User table: username -> password
    members,     \* OrganizationUser rows: <<username, organization>>
    userTokens,  \* authtoken Token rows: [user, key]
    radacct,     \* accounting rows: [session, organization]
    useJwt,      \* settings.REST_USE_JWT
    last,        \* the request being answered: operation, inputs, outcome
    issued,      \* history: [user, org, key] of every successful login
    registrations, \* registrations taken step by step: [username, org, pc]
    workers      \* concurrent requests: worker -> [pc, req, inst, status]

vars == <<token, cache, users, members, userTokens, radacct, useJwt, last,
          issued, workers, registrations>>

Idle == [op |-> "idle"]

\* ------------------------------------------------------------------- cache
EmptyCache == [k \in {} |-> None]
CacheGet(c, k) == IF k \in DOMAIN c THEN c[k] ELSE None
\* faulty variant: a write replaces the whole cache by the one entry
CacheSetClobber(c, k, v) == [x \in {k} |-> v]

CacheSet(c, k, v) == [x \in (DOMAIN c) \cup {k} |-> IF x = k THEN v ELSE c[x]]

\* ---------------------------------------------------- TokenAuthentication
AUTH_FAILED == "Token authentication failed"
ORG_NOT_ALLOWED == "setting the organization parameter explicitly is not allowed"
INVALID_TOKEN == "Invalid token"

\* faulty variant: the organization field of the body is not looked at
check_organizationSkipped(req) == FALSE

\* 'organization' in request.data
check_organization(req) == req.hasOrg

\* faulty variant: a short header is ignored and the query parameters kept
get_uuid_tokenFallback(req) ==
    IF req.header = None \/ Len(Split(req.header)) < 3
    THEN [exc |-> "none", uuid |-> req.qUuid, token |-> req.qToken]
    ELSE [exc |-> "none", uuid |-> Split(req.header)[2], token |-> Split(req.header)[3]]

\* faulty variant: query parameters, when given, take precedence over the
\* Authorization header
get_uuid_tokenQueryFirst(req) ==
    IF req.header = None \/ req.qUuid # None
    THEN [exc |-> "none", uuid |-> req.qUuid, token |-> req.qToken]
    ELSE LET parts == Split(req.header) IN
         IF Len(parts) < 3
         THEN [exc |-> "ParseError", uuid |-> None, token |-> None]
         ELSE [exc |-> "none", uuid |-> parts[2], token |-> parts[3]]

\* get_uuid_token: query parameters by default, header parts 1 and 2 when the
\* Authorization header is present; IndexError becomes ParseError
get_uuid_token(req) ==
    IF req.header = None
    THEN [exc |-> "none", uuid |-> req.qUuid, token |-> req.qToken]
    ELSE LET parts == Split(req.header) IN
         IF Len(parts) < 3
         THEN [exc |-> "ParseError", uuid |-> None, token |-> None]
         ELSE [exc |-> "none", uuid |-> parts[2], token |-> parts[3]]

\* the string literal 'uuid'
LiteralUuid == << <<"lit", 0>> >>

\* variant: the cache is tested under the uuid of the request, so that a
\* cached entry alone decides the request
CacheCheckKeyPerOrg(uuid) == uuid

\* faulty variant: the entry of the first organization stands for the whole
\* cache being warm
CacheCheckKeyFirstOrg(uuid) == Uuid(1)

\* the key whose presence decides whether the store is looked up (the cache
\* is taken as cold when this key holds nothing); uuid is the request's uuid
CacheCheckKey(uuid) == LiteralUuid

\* faulty variant: the settings are looked up by organization only
StoreGetByOrganization(tk, uuid, tok) == {o \in Orgs : Uuid(o) = uuid}

\* OrganizationRadiusSettings.objects.get(organization=uuid, token=token)
StoreGet(tk, uuid, tok) == {o \in Orgs : Uuid(o) = uuid /\ Tok(tk[o]) = tok}

\* the primary key of the settings record of organization o: the cache is
\* keyed by the organization identifier
SettingsPk(o) == Uuid(o)

\* faulty variant: the cache is not written
PopulateSkipped(c, instance, tk) == c

\* cache.set(instance.pk, instance.token)
Populate(c, instance, tk) == CacheSet(c, SettingsPk(instance), Tok(tk[instance]))

Failed(c, exc, detail, n) ==
    [status |-> exc, detail |-> detail, auth |-> None, cache |-> c, lookups |-> n]

\* storeOk: the settings query answers (found or DoesNotExist); otherwise it
\* raises another exception, which authenticate does not catch
authenticate(req, c, tk, storeOk) ==
    IF check_organization(req) THEN Failed(c, "AuthenticationFailed", ORG_NOT_ALLOWED, 0)
    ELSE LET ut == get_uuid_token(req) IN
    IF ut.exc = "ParseError" THEN Failed(c, "ParseError", INVALID_TOKEN, 0)
    ELSE IF Falsy(ut.uuid) \/ Falsy(ut.token)
    THEN Failed(c, "AuthenticationFailed", AUTH_FAILED, 0)
    ELSE IF Falsy(CacheGet(c, CacheCheckKey(ut.uuid)))
    THEN LET found == StoreGet(tk, ut.uuid, ut.token) IN
         IF ~storeOk THEN Failed(c, "OperationalError", "", 1)
         ELSE IF found = {} THEN Failed(c, "AuthenticationFailed", AUTH_FAILED, 1)
         ELSE LET instance == CHOOSE o \in found : TRUE IN
              [status |-> "ok", detail |-> "", auth |-> ut.uuid,
               cache |-> Populate(c, instance, tk),
               lookups |-> 1]
    ELSE IF CacheGet(c, ut.uuid) # ut.token
    THEN Failed(c, "AuthenticationFailed", AUTH_FAILED, 0)
    ELSE [status |-> "ok", detail |-> "", auth |-> ut.uuid, cache |-> c, lookups |-> 0]

\* ---------------------------------------------------------------- requests
Uuids == {Uuid(o) : o \in Orgs} \cup {UnknownUuid}
Toks == {Tok(t) : t \in TokenIds}

Request(hasOrg, qUuid, qToken, header) ==
    [hasOrg |-> hasOrg, qUuid |-> qUuid, qToken |-> qToken, header |-> header]

\* requests that carry their credentials as query parameters
QueryRequests ==
    {Request(b, u, t, None) :
        b \in BOOLEAN, u \in Uuids \cup {None, EmptyStr}, t \in Toks \cup {None, EmptyStr}}

\* requests with a well-formed Authorization header and no query parameters
WellFormedHeaderRequests ==
    {Request(b, None, None, Join(<<Scheme, u, t>>)) :
        b \in BOOLEAN, u \in Uuids, t \in Toks}

Requests == QueryRequests \cup WellFormedHeaderRequests

RECURSIVE WordLists(_)
\* the lists of at most n words
WordLists(n) ==
    IF n = 0 THEN {<< >>}
    ELSE LET shorter == WordLists(n - 1) IN
         shorter \cup {Append(ws, w) : ws \in shorter, w \in {EmptyStr} \cup Uuids \cup Toks}

\* Authorization header values of at most MaxParts space-separated parts
Headers ==
    {Join(<<first>> \o rest) : first \in {Scheme, EmptyStr}, rest \in WordLists(MaxParts - 1)}

QueryCreds ==
    {<<None, None>>} \cup {<<Uuid(o), t>> : o \in Orgs, t \in Toks}

\* requests with or without an Authorization header, of any shape
HeaderRequests ==
    {Request(b, q[1], q[2], h) :
        b \in BOOLEAN, q \in QueryCreds, h \in Headers \cup {None}}

\* --------------------------------------------------------------- the views
ScopeVars == <<users, members, userTokens, radacct, useJwt>>
AuxVars == <<issued, workers, registrations>>

\* a freeradius view authenticates the request with TokenAuthentication;
\* storeOk tells whether the settings query answers
AuthenticateWith(req, storeOk) ==
    /\ last = Idle
    /\ LET r == authenticate(req, cache, token, storeOk) IN
       /\ cache' = r.cache
       /\ last' = [op |-> "authenticate", req |-> req, status |-> r.status,
                   detail |-> r.detail, auth |-> r.auth, lookups |-> r.lookups,
                   cacheBefore |-> cache, storeOk |-> storeOk]
    /\ UNCHANGED <<token, ScopeVars, AuxVars>>

\* the same with a store that answers
Authenticate(req) == AuthenticateWith(req, TRUE)

\* the requests of reqs, one at a time: a request is taken when none is
\* being answered
Serve(reqs) == last = Idle /\ \E req \in reqs : Authenticate(req)

\* an administrator changes the token of an organization
RotateToken(o, t) ==
    /\ last = Idle
    /\ token[o] # t
    /\ token' = [token EXCEPT ![o] = t]
    /\ last' = [op |-> "rotate", org |-> o]
    /\ UNCHANGED <<cache, ScopeVars, AuxVars>>

\* the response is sent and the request-scoped state is discarded
EndRequest ==
    /\ last # Idle
    /\ last' = Idle
    /\ UNCHANGED <<token, cache, ScopeVars, AuxVars>>

Workers == 1..NumWorkers
IdleWorker == [pc |-> "idle", req |-> Request(FALSE, None, None, None),
               inst |-> {}, status |-> ""]

EmptyDb ==
    /\ users = [u \in {} |-> "pw1"]
    /\ members = {}
    /\ userTokens = {}
    /\ radacct = {}
    /\ issued = {}
    /\ registrations = {}
    /\ workers = [w \in Workers |-> IdleWorker]

Init ==
    /\ token \in [Orgs -> TokenIds]
    /\ cache = EmptyCache
    /\ EmptyDb
    /\ useJwt = FALSE
    /\ last = Idle

Next ==
    \/ Serve(Requests)
    \/ \E o \in Orgs, t \in TokenIds : RotateToken(o, t)
    \/ EndRequest

Spec == Init /\ [][Next]_vars

\* the requests of reqs, each with a settings query that answers or raises
ServeStore(reqs) ==
    last = Idle /\ \E req \in reqs, storeOk \in BOOLEAN : AuthenticateWith(req, storeOk)

\* authentication over a store whose queries may fail
NextStore ==
    \/ ServeStore(Requests)
    \/ \E o \in Orgs, t \in TokenIds : RotateToken(o, t)
    \/ EndRequest

SpecStore == Init /\ [][NextStore]_vars

\* header parsing: every organization has its own token, no rotation
InitHeader ==
    /\ token = [o \in Orgs |-> ((o - 1) % NumTokens) + 1]
    /\ cache = EmptyCache
    /\ EmptyDb
    /\ useJwt = FALSE
    /\ last = Idle

NextHeader ==
    \/ Serve(HeaderRequests)
    \/ EndRequest

SpecHeader == InitHeader /\ [][NextHeader]_vars

\* ------------------------------------------------------ organization scope
NoUser == "<none>"
NoOrg == 0
Slug(o) == << <<"slug", o>> >>
Slugs == {Slug(o) : o \in Orgs} \cup {Slug(NoOrg)}

\* request.auth of a request that passed TokenAuthentication
AuthContexts == {Uuid(o) : o \in Orgs}
OrgOfAuth(auth) == CHOOSE o \in Orgs : Uuid(o) = auth

\* the user lookup of the base authorize view, by username
BaseGetUser(us, username) == IF username \in DOMAIN us THEN username ELSE NoUser

\* faulty variant: a membership of any organization counts
MembershipExistsAnyOrg(ms, user, auth) == \E m \in ms : m[1] = user

\* OrganizationUser.objects.filter(user=user, organization_id=auth).exists()
MembershipExists(ms, user, auth) == \E m \in ms : m[1] = user /\ Uuid(m[2]) = auth

\* AuthorizeView.get_user
get_user(us, ms, auth, username) ==
    LET user == BaseGetUser(us, username) IN
    IF user # NoUser /\ ~MembershipExists(ms, user, auth) THEN NoUser ELSE user

\* faulty variant: the base queryset is returned as it is
get_querysetUnfiltered(rows, auth) == rows

\* AccountingView.get_queryset
get_queryset(rows, auth) == {r \in rows : Uuid(r.organization) = auth}

\* TokenAuthorizationMixin.get_serializer: the data handed to the serializer
\* carries the authenticated organization
get_serializer(data, auth) == [data EXCEPT !.organization = auth]

\* faulty variant: an unknown slug falls back to the first organization
dispatchFirstOrg(slug) ==
    IF \E o \in Orgs : Slug(o) = slug THEN CHOOSE o \in Orgs : Slug(o) = slug ELSE 1

\* DispatchOrgMixin.dispatch: Organization.objects.get(slug=slug), NoOrg for
\* Organization.DoesNotExist
dispatch(slug) ==
    IF \E o \in Orgs : Slug(o) = slug THEN CHOOSE o \in Orgs : Slug(o) = slug ELSE NoOrg

\* faulty variant: no membership row is written
add_userSkipped(ms, org, user) == ms

\* Organization.add_user
add_user(ms, org, user) == ms \cup {<<user, org>>}

\* the key of a token row that is not in use yet
NewKey(uts) == Cardinality(uts) + 1
NoKey == 0

\* create_token of the base registration view
create_token(uts, user) == uts \cup {[user |-> user, key |-> NewKey(uts)]}

\* faulty variant: a new token row on every login
get_or_createAlwaysNew(uts, user) ==
    LET row == [user |-> user, key |-> NewKey(uts)] IN
    [row |-> row, rows |-> uts \cup {row}]

\* Token.objects.get_or_create(user=user)
get_or_create(uts, user) ==
    IF \E r \in uts : r.user = user
    THEN [row |-> CHOOSE r \in uts : r.user = user, rows |-> uts]
    ELSE LET row == [user |-> user, key |-> NewKey(uts)] IN
         [row |-> row, rows |-> uts \cup {row}]

\* perform_create of the base registration view: the user is saved, and
\* its token unless JWT is used
BasePerformCreate(us, uts, jwt, username, password) ==
    [users |-> [u \in (DOMAIN us) \cup {username} |->
                   IF u = username THEN password ELSE us[u]],
     userTokens |-> IF jwt THEN uts ELSE create_token(uts, username)]

\* RegisterView.perform_create: the base view saves the user (and its token
\* unless JWT is used), then the user joins the organization of the slug
perform_create(us, ms, uts, jwt, org, username, password) ==
    LET saved == BasePerformCreate(us, uts, jwt, username, password) IN
    [users |-> saved.users,
     userTokens |-> saved.userTokens,
     members |-> add_user(ms, org, username)]

BAD_CREDENTIALS == "Unable to log in with provided credentials."
NOT_MEMBER == "User is not member of organization"

\* faulty variant: a membership of any organization counts
IsMemberOfAnyOrg(ms, org, user) == \E o \in Orgs : <<user, o>> \in ms

\* (self.organization.pk,) in user.organizations_pk
IsMember(ms, org, user) == <<user, org>> \in ms

\* faulty variant: the token row is fetched or created before the
\* membership is checked
postTokenBeforeMembership(us, ms, uts, org, username, password) ==
    IF ~(username \in DOMAIN us /\ us[username] = password)
    THEN [status |-> "ValidationError", detail |-> BAD_CREDENTIALS,
          userTokens |-> uts, token |-> NoKey]
    ELSE LET t == get_or_create(uts, username) IN
         IF ~IsMember(ms, org, username)
         THEN [status |-> "ValidationError", detail |-> NOT_MEMBER,
               userTokens |-> t.rows, token |-> NoKey]
         ELSE [status |-> "ok", detail |-> "", userTokens |-> t.rows,
               token |-> t.row.key]

\* ObtainAuthTokenView.post
post(us, ms, uts, org, username, password) ==
    IF ~(username \in DOMAIN us /\ us[username] = password)
    THEN [status |-> "ValidationError", detail |-> BAD_CREDENTIALS,
          userTokens |-> uts, token |-> NoKey]
    ELSE IF ~IsMember(ms, org, username)
    THEN [status |-> "ValidationError", detail |-> NOT_MEMBER,
          userTokens |-> uts, token |-> NoKey]
    ELSE LET t == get_or_create(uts, username) IN
         [status |-> "ok", detail |-> "", userTokens |-> t.rows, token |-> t.row.key]

Db == [users |-> users, members |-> members, userTokens |-> userTokens]

\* POST freeradius/authorize/ of a request authenticated for auth
Authorize(auth, username) ==
    /\ last = Idle
    /\ last' = [op |-> "authorize", auth |-> auth, username |-> username,
                user |-> get_user(users, members, auth, username)]
    /\ UNCHANGED <<token, cache, ScopeVars, AuxVars>>

\* POST freeradius/accounting/ of a request authenticated for auth
AccountingPost(auth, session, sentOrg) ==
    /\ last = Idle
    /\ LET data == get_serializer([session |-> session, organization |-> sentOrg], auth) IN
       /\ radacct' = IF \E r \in radacct : r.session = data.session THEN radacct
                     ELSE radacct \cup {[session |-> data.session,
                                         organization |-> OrgOfAuth(data.organization)]}
       /\ last' = [op |-> "accounting_post", auth |-> auth, session |-> session]
    /\ UNCHANGED <<token, cache, users, members, userTokens, useJwt, AuxVars>>

\* GET freeradius/accounting/ of a request authenticated for auth
AccountingList(auth) ==
    /\ last = Idle
    /\ last' = [op |-> "accounting_list", auth |-> auth,
                rows |-> get_queryset(radacct, auth)]
    /\ UNCHANGED <<token, cache, ScopeVars, AuxVars>>

\* POST <slug>/account/
Register(slug, username, password) ==
    /\ last = Idle
    /\ LET org == dispatch(slug) IN
       IF org = NoOrg
       THEN /\ last' = [op |-> "register", slug |-> slug, username |-> username,
                        status |-> "NotFound", before |-> Db]
            /\ UNCHANGED <<users, members, userTokens>>
       ELSE IF username \in DOMAIN users
       THEN /\ last' = [op |-> "register", slug |-> slug, username |-> username,
                        status |-> "ValidationError", before |-> Db]
            /\ UNCHANGED <<users, members, userTokens>>
       ELSE LET r == perform_create(users, members, userTokens, useJwt,
                                    org, username, password) IN
            /\ users' = r.users
            /\ members' = r.members
            /\ userTokens' = r.userTokens
            /\ last' = [op |-> "register", slug |-> slug, username |-> username,
                        status |-> "created", before |-> Db]
    /\ UNCHANGED <<token, cache, radacct, useJwt, AuxVars>>

\* POST <slug>/account/token/; the history of issued tokens is written by
\* the specification that uses the action
Login(slug, username, password) ==
    /\ last = Idle
    /\ LET org == dispatch(slug) IN
       IF org = NoOrg
       THEN /\ last' = [op |-> "login", slug |-> slug, username |-> username,
                        password |-> password, status |-> "NotFound", detail |-> "",
                        token |-> NoKey, validated |-> FALSE, before |-> Db]
            /\ UNCHANGED userTokens
       ELSE LET r == post(users, members, userTokens, org, username, password) IN
            /\ userTokens' = r.userTokens
            /\ last' = [op |-> "login", slug |-> slug, username |-> username,
                        password |-> password, status |-> r.status,
                        detail |-> r.detail, token |-> r.token,
                        validated |-> TRUE, before |-> Db]
    /\ UNCHANGED <<token, cache, users, members, radacct, useJwt, workers,
                   registrations>>

InitScope ==
    /\ token = [o \in Orgs |-> ((o - 1) % NumTokens) + 1]
    /\ cache = EmptyCache
    /\ EmptyDb
    /\ useJwt \in BOOLEAN
    /\ last = Idle

NextScope ==
    \/ \E auth \in AuthContexts, u \in Usernames : Authorize(auth, u)
    \/ \E auth \in AuthContexts, s \in Sessions, sent \in AuthContexts \cup {None} :
          AccountingPost(auth, s, sent)
    \/ \E auth \in AuthContexts : AccountingList(auth)
    \/ \E sl \in Slugs, u \in Usernames, p \in Passwords : Register(sl, u, p)
    \/ \E sl \in Slugs, u \in Usernames, p \in Passwords :
          Login(sl, u, p) /\ UNCHANGED issued
    \/ EndRequest

SpecScope == InitScope /\ [][NextScope]_vars

\* ------------------------------------------- concurrent authentication
\* authenticate run by several workers at once, one step per access to the
\* cache or to the store; the store is not written meanwhile

\* requests of the concurrent workers
ConcRequests ==
    {Request(FALSE, u, t, None) : u \in Uuids, t \in Toks \cup {None}}

WorkerDone(w, status) ==
    workers' = [workers EXCEPT ![w].pc = "done", ![w].status = status]

\* check_organization, get_uuid_token and the test for missing credentials
WStart(w, req) ==
    /\ workers[w].pc = "idle"
    /\ LET ut == get_uuid_token(req)
           status == IF check_organization(req) THEN "AuthenticationFailed"
                     ELSE IF ut.exc = "ParseError" THEN "ParseError"
                     ELSE IF Falsy(ut.uuid) \/ Falsy(ut.token)
                          THEN "AuthenticationFailed"
                     ELSE ""
       IN workers' = [workers EXCEPT ![w] =
              [pc |-> IF status = "" THEN "check" ELSE "done",
               req |-> req, inst |-> {}, status |-> status]]
    /\ UNCHANGED <<token, cache, ScopeVars, issued, registrations, last>>

\* the cache test, and the comparison with the cached token when it passes
WCacheRead(w) ==
    /\ workers[w].pc = "check"
    /\ LET ut == get_uuid_token(workers[w].req) IN
       IF Falsy(CacheGet(cache, CacheCheckKey(ut.uuid)))
       THEN workers' = [workers EXCEPT ![w].pc = "lookup"]
       ELSE IF CacheGet(cache, ut.uuid) # ut.token
            THEN WorkerDone(w, "AuthenticationFailed")
       ELSE WorkerDone(w, "ok")
    /\ UNCHANGED <<token, cache, ScopeVars, issued, registrations, last>>

\* the settings query
WLookup(w) ==
    /\ workers[w].pc = "lookup"
    /\ LET ut == get_uuid_token(workers[w].req)
           found == StoreGet(token, ut.uuid, ut.token)
       IN IF found = {} THEN WorkerDone(w, "AuthenticationFailed")
          ELSE workers' = [workers EXCEPT ![w].pc = "write",
                                          ![w].inst = {CHOOSE o \in found : TRUE}]
    /\ UNCHANGED <<token, cache, ScopeVars, issued, registrations, last>>

\* cache.set with the record found; the return of the organization
WWrite(w) ==
    /\ workers[w].pc = "write"
    /\ cache' = Populate(cache, CHOOSE o \in workers[w].inst : TRUE, token)
    /\ WorkerDone(w, "ok")
    /\ UNCHANGED <<token, ScopeVars, issued, registrations, last>>

NextConc ==
    \/ \E w \in Workers, req \in ConcRequests : WStart(w, req)
    \/ \E w \in Workers : WCacheRead(w)
    \/ \E w \in Workers : WLookup(w)
    \/ \E w \in Workers : WWrite(w)

SpecConc == InitHeader /\ [][NextConc]_vars

\* ------------------------------------------- registration step by step
\* perform_create writes the user and the membership in two statements;
\* other requests are served between the two, and the second may raise

\* user = super().perform_create(serializer)
RegisterSaveUser(slug, username, password) ==
    /\ last = Idle
    /\ dispatch(slug) # NoOrg
    /\ username \notin DOMAIN users
    /\ LET saved == BasePerformCreate(users, userTokens, useJwt, username, password) IN
       /\ users' = saved.users
       /\ userTokens' = saved.userTokens
    /\ registrations' = registrations \cup
          {[username |-> username, org |-> dispatch(slug), pc |-> "saved"]}
    /\ UNCHANGED <<token, cache, members, radacct, useJwt, issued, workers, last>>

RegistrationStep(r, pc) ==
    registrations' = (registrations \ {r}) \cup {[r EXCEPT !.pc = pc]}

\* self.organization.add_user(user) writes the membership
RegisterAddUser(r) ==
    /\ last = Idle
    /\ r.pc = "saved"
    /\ members' = add_user(members, r.org, r.username)
    /\ RegistrationStep(r, "joined")
    /\ UNCHANGED <<token, cache, users, userTokens, radacct, useJwt, issued,
                   workers, last>>

\* self.organization.add_user(user) raises; the saved user is not undone
RegisterAddUserFails(r) ==
    /\ last = Idle
    /\ r.pc = "saved"
    /\ RegistrationStep(r, "failed")
    /\ UNCHANGED <<token, cache, ScopeVars, issued, workers, last>>

NextRegister ==
    \/ \E sl \in Slugs, u \in Usernames, p \in Passwords :
          RegisterSaveUser(sl, u, p)
    \/ \E r \in registrations : RegisterAddUser(r)
    \/ \E r \in registrations : RegisterAddUserFails(r)
    \/ \E sl \in Slugs, u \in Usernames, p \in Passwords :
          Login(sl, u, p) /\ UNCHANGED issued
    \/ EndRequest

SpecRegister == InitScope /\ [][NextRegister]_vars

\* an administrator adds an existing user to a further organization
AddMember(username, org) ==
    /\ last = Idle
    /\ username \in DOMAIN users
    /\ <<username, org>> \notin members
    /\ members' = add_user(members, org, username)
    /\ last' = [op |-> "add_member", username |-> username, org |-> org]
    /\ UNCHANGED <<token, cache, users, userTokens, radacct, useJwt, AuxVars>>

\* a login whose token, when one is returned, is written to the history
LoginIssue(slug, username, password) ==
    /\ Login(slug, username, password)
    /\ issued' = IF last'.status = "ok"
                 THEN issued \cup {[user |-> username, org |-> dispatch(slug),
                                    key |-> last'.token]}
                 ELSE issued

\* registration, further memberships and logins
NextLogin ==
    \/ \E sl \in Slugs, u \in Usernames, p \in Passwords : Register(sl, u, p)
    \/ \E u \in Usernames, o \in Orgs : AddMember(u, o)
    \/ \E sl \in Slugs, u \in Usernames, p \in Passwords : LoginIssue(sl, u, p)
    \/ EndRequest

SpecLogin == InitScope /\ [][NextLogin]_vars

\* ------------------------------------------------------------------ claims
IsAuth == last.op = "authenticate"

\* the credentials get_uuid_token extracts from the request being answered
Presented == get_uuid_token(last.req)
PresentsPair(uuid, tok) ==
    Presented.exc = "none" /\ Presented.uuid = uuid /\ Presented.token = tok

\* C1: a request that names organization o with a token that is not o's
\* current token fails with AuthenticationFailed, also when that token is the
\* current token of another organization; a successful authentication returns
\* the organization whose current token was presented.
C1_NoCrossTenantAcceptance ==
    IsAuth =>
        /\ \A o \in Orgs :
              (Presented.exc = "none" /\ Presented.uuid = Uuid(o)
                 /\ Presented.token # Tok(token[o]))
              => last.status = "AuthenticationFailed"
        /\ (last.status = "ok" =>
              \E o \in Orgs : last.auth = Uuid(o) /\ PresentsPair(Uuid(o), Tok(token[o])))

\* o's cache entry holds its rotated-away token, which is now the token of
\* o2, and the request presenting it for o is refused
C1_Witness ==
    /\ IsAuth
    /\ ~last.req.hasOrg
    /\ \E o \in Orgs, o2 \in Orgs :
          /\ o2 # o
          /\ token[o2] # token[o]
          /\ PresentsPair(Uuid(o), Tok(token[o2]))
          /\ CacheGet(last.cacheBefore, Uuid(o)) = Tok(token[o2])
    /\ last.status = "AuthenticationFailed"

C3_WarmCacheNoStoreLookup ==
    IsAuth =>
        \A o \in Orgs :
            (/\ ~last.req.hasOrg
             /\ Presented.exc = "none"
             /\ Presented.uuid = Uuid(o)
             /\ ~Falsy(Presented.token)
             /\ CacheGet(last.cacheBefore, Uuid(o)) = Presented.token)
            => last.status = "ok" /\ last.lookups = 0

\* C4: a request whose body has an organization field fails with
\* AuthenticationFailed and the explicit-organization message whatever its
\* credentials and header are, without a store lookup and with the cache
\* unchanged.
C4_ExplicitOrganizationRejected ==
    (IsAuth /\ last.req.hasOrg) =>
        /\ last.status = "AuthenticationFailed"
        /\ last.detail = ORG_NOT_ALLOWED
        /\ last.auth = None
        /\ last.lookups = 0
        /\ cache = last.cacheBefore

\* valid credentials sent together with an organization field
C4_Witness ==
    /\ IsAuth
    /\ last.req.hasOrg
    /\ \E o \in Orgs :
          /\ last.req.qUuid = Uuid(o) /\ last.req.qToken = Tok(token[o])
          /\ last.req.header = Join(<<Scheme, Uuid(o), Tok(token[o])>>)
    /\ last.status = "AuthenticationFailed"

ShortHeader == last.req.header # None /\ Len(Split(last.req.header)) < 3

\* C5 as stated: every request whose Authorization header has fewer than
\* three space-separated parts ends in ParseError.
C5_ShortHeaderAlwaysParseError ==
    (IsAuth /\ ShortHeader) => last.status = "ParseError"

\* C5: a request without organization field whose Authorization header has
\* fewer than three space-separated parts ends in ParseError, whatever its
\* query parameters are.
C5_ShortHeaderParseError ==
    (IsAuth /\ ShortHeader /\ ~last.req.hasOrg) =>
        /\ last.status = "ParseError"
        /\ last.auth = None
        /\ last.lookups = 0
        /\ cache = last.cacheBefore

\* a two-part header together with valid query parameters
C5_Witness ==
    /\ IsAuth
    /\ ~last.req.hasOrg
    /\ Len(Split(last.req.header)) = 2
    /\ \E o \in Orgs : last.req.qUuid = Uuid(o) /\ last.req.qToken = Tok(token[o])
    /\ last.status = "ParseError"

\* a username that is never registered
NonexistentUser == "nobody"

Exists(u) == u \in DOMAIN users
OrgOfSlug(slug) == {o \in Orgs : Slug(o) = slug}

\* C6: at the authorize endpoint authenticated for organization B, get_user
\* returns the user exactly when the user exists and has a membership row
\* for B; for an existing user without that row it returns what it returns
\* for a user that does not exist, None.
C6_AuthorizeHidesNonMembers ==
    last.op = "authorize" =>
        LET u == last.username
            b == OrgOfAuth(last.auth)
        IN /\ (last.user = u) <=> (Exists(u) /\ <<u, b>> \in members)
           /\ last.user \in {u, NoUser}
           /\ (Exists(u) /\ <<u, b>> \notin members) =>
                 /\ last.user = NoUser
                 /\ last.user = get_user(users, members, last.auth, NonexistentUser)

\* a member of organization a, not of b, is looked up for b
C6_Witness ==
    /\ last.op = "authorize"
    /\ Exists(last.username)
    /\ \E a \in Orgs :
          /\ Uuid(a) # last.auth
          /\ <<last.username, a>> \in members
          /\ <<last.username, OrgOfAuth(last.auth)>> \notin members
    /\ last.user = NoUser

CredentialsValid == Exists(last.username) /\ users[last.username] = last.password

\* C7: a login under a slug that resolves to an organization, with valid
\* credentials of a user who is not a member of that organization, fails
\* with the membership ValidationError, which differs from the credential
\* error, and neither creates nor returns a token; with invalid credentials
\* the credential error is reported whatever the membership is.
C7_LoginMembershipError ==
    (last.op = "login" /\ OrgOfSlug(last.slug) # {}) =>
        /\ (CredentialsValid
              /\ \A o \in OrgOfSlug(last.slug) : <<last.username, o>> \notin members)
           => /\ last.status = "ValidationError"
              /\ last.detail = NOT_MEMBER
              /\ last.detail # BAD_CREDENTIALS
              /\ last.token = NoKey
              /\ userTokens = last.before.userTokens
        /\ ~CredentialsValid
           => /\ last.status = "ValidationError"
              /\ last.detail = BAD_CREDENTIALS
              /\ last.token = NoKey
              /\ userTokens = last.before.userTokens

\* valid credentials of a user that belongs to another organization only and
\* owns no token yet
C7_Witness ==
    /\ last.op = "login"
    /\ CredentialsValid
    /\ \E o \in OrgOfSlug(last.slug), a \in Orgs :
          /\ <<last.username, o>> \notin members
          /\ <<last.username, a>> \in members
    /\ \A r \in userTokens : r.user # last.username
    /\ last.status = "ValidationError"
    /\ last.detail = NOT_MEMBER

\* C8: the accounting listing served to a request authenticated for
\* organization A holds only rows of A, whatever rows exist.
C8_AccountingListScoped ==
    last.op = "accounting_list" =>
        /\ \A r \in last.rows : Uuid(r.organization) = last.auth
        /\ last.rows \subseteq radacct

\* rows of both organizations exist and the listing for A returns A's row
C8_Witness ==
    /\ last.op = "accounting_list"
    /\ \E r \in radacct : Uuid(r.organization) # last.auth
    /\ \E r \in radacct : Uuid(r.organization) = last.auth
    /\ last.rows # {}
    /\ last.rows # radacct

\* C9: when a registration under slug S has created user u, the membership
\* row (u, organization of S) exists on return and it is the only membership
\* the registration added.
C9_RegistrationAddsMembership ==
    (last.op = "register" /\ last.status = "created") =>
        /\ Exists(last.username)
        /\ \E o \in OrgOfSlug(last.slug) :
              /\ <<last.username, o>> \in members
              /\ members = last.before.members \cup {<<last.username, o>>}
              /\ \A o2 \in Orgs \ {o} : <<last.username, o2>> \notin members

\* a second user is registered, under another organization than the first
C9_Witness ==
    /\ last.op = "register"
    /\ last.status = "created"
    /\ last.before.members # {}
    /\ \E o \in OrgOfSlug(last.slug) :
          /\ <<last.username, o>> \in members
          /\ \A m \in last.before.members : m[2] # o

\* C10: a registration or login under a slug that no organization has ends
\* with NotFound: no user, membership or token is created, the credentials
\* are not validated and no token is returned.
C10_UnknownSlugNotFound ==
    (last.op \in {"register", "login"} /\ OrgOfSlug(last.slug) = {}) =>
        /\ last.status = "NotFound"
        /\ Db = last.before
        /\ last.op = "login" => (~last.validated /\ last.token = NoKey)

\* valid credentials of a member without token, sent under an unknown slug
C10_Witness ==
    /\ last.op = "login"
    /\ OrgOfSlug(last.slug) = {}
    /\ CredentialsValid
    /\ \E o \in Orgs : <<last.username, o>> \in members
    /\ \A r \in userTokens : r.user # last.username
    /\ last.status = "NotFound"

\* what the caller of authenticate sees: exception kind, message, context
Outcome(req, c) ==
    LET r == authenticate(req, c, token, TRUE) IN <<r.status, r.detail, r.auth>>
LastOutcome == <<last.status, last.detail, last.auth>>

\* C11: every cache entry of an organization is absent or equal to the
\* organization's current stored token.
C11_CacheConsistentWithStore ==
    \A o \in Orgs : CacheGet(cache, Uuid(o)) \in {None, Tok(token[o])}

\* the request without organization field, uuid and token
NoCredentials == Request(FALSE, None, None, None)

\* the request being answered has no organization field and presents no
\* pair (organization, current token of that organization)
WrongCredentials ==
    /\ ~last.req.hasOrg
    /\ Presented.exc = "none"
    /\ ~\E o \in Orgs : PresentsPair(Uuid(o), Tok(token[o]))

\* C12: requests without organization field that present an unknown
\* organization identifier, a known one with a wrong token, or no identifier
\* or token all end as the request without any credentials does:
\* AuthenticationFailed with the same message and no context.
C12_FailuresIndistinguishable ==
    (IsAuth /\ WrongCredentials) =>
        /\ LastOutcome = Outcome(NoCredentials, cache)
        /\ last.status = "AuthenticationFailed"

\* an unknown identifier with the valid token of an organization
C12_Witness ==
    /\ IsAuth
    /\ WrongCredentials
    /\ \E o \in Orgs : PresentsPair(UnknownUuid, Tok(token[o]))
    /\ last.status = "AuthenticationFailed"
    /\ last.detail = AUTH_FAILED

\* the cache c without the entries of the organizations other than b
OwnEntryOnly(c, b) == [k \in (DOMAIN c) \cap {Uuid(b)} |-> c[k]]

\* C16: a request without organization field that names organization b is
\* accepted exactly when it presents b's current token, and its outcome is
\* the one it has when the entries of the other organizations are not cached.
C16_CacheIndependence ==
    IsAuth =>
        \A b \in Orgs :
            (~last.req.hasOrg /\ Presented.exc = "none" /\ Presented.uuid = Uuid(b))
            => /\ (last.status = "ok") <=> (Presented.token = Tok(token[b]))
               /\ LastOutcome = Outcome(last.req, OwnEntryOnly(last.cacheBefore, b))
               /\ LastOutcome = Outcome(last.req, EmptyCache)

\* a is cached, b is not, and b's valid request is accepted
C16_Witness ==
    /\ IsAuth
    /\ ~last.req.hasOrg
    /\ \E a \in Orgs, b \in Orgs :
          /\ a # b
          /\ CacheGet(last.cacheBefore, Uuid(a)) # None
          /\ CacheGet(last.cacheBefore, Uuid(b)) = None
          /\ PresentsPair(Uuid(b), Tok(token[b]))
    /\ last.status = "ok"

\* C17: a request that presents for organization o a token that the cache
\* still holds for o but that is no longer o's stored token is refused.
C17_StaleEntryGrantsNothing ==
    IsAuth =>
        \A o \in Orgs :
            (/\ Presented.exc = "none"
             /\ Presented.uuid = Uuid(o)
             /\ Presented.token # Tok(token[o])
             /\ CacheGet(last.cacheBefore, Uuid(o)) = Presented.token)
            => last.status = "AuthenticationFailed" /\ last.auth = None

\* the old token is presented after the rotation, with the old entry cached
C17_Witness ==
    /\ IsAuth
    /\ ~last.req.hasOrg
    /\ \E o \in Orgs :
          /\ Presented.exc = "none"
          /\ Presented.uuid = Uuid(o)
          /\ ~Falsy(Presented.token)
          /\ Presented.token # Tok(token[o])
          /\ CacheGet(last.cacheBefore, Uuid(o)) = Presented.token
    /\ last.status = "AuthenticationFailed"

\* C13: when the settings query of the request fails with an error other
\* than DoesNotExist, the request ends in AuthenticationFailed.
C13_StoreErrorIsAuthenticationFailed ==
    (IsAuth /\ ~last.storeOk /\ last.lookups = 1) =>
        last.status = "AuthenticationFailed"

TokensOf(u) == {r \in userTokens : r.user = u}

\* C14 as stated: the tokens a user obtains by login under two different
\* organizations differ.
C14_TokenPerUserAndOrganization ==
    \A i \in issued, j \in issued :
        (i.user = j.user /\ i.org # j.org) => i.key # j.key

\* C14: tokens are issued per user: all logins of a user return the same
\* token, under whichever organization, it is the user's only token row,
\* and the tokens of different users differ.
C14_TokenPerUser ==
    /\ \A i \in issued, j \in issued : (i.user = j.user) <=> (i.key = j.key)
    /\ \A i \in issued : TokensOf(i.user) = {[user |-> i.user, key |-> i.key]}

\* a user has logged in under two organizations
C14_Witness ==
    \E i \in issued, j \in issued : i.user = j.user /\ i.org # j.org

\* C19: a login ends NotFound when the slug resolves to no organization,
\* else with the credential error when the credentials are invalid, else
\* with the membership error when the user is no member, else with a token;
\* a rejected login returns no token and changes no table; a successful one
\* returns the user's token row, reusing the row the user already has; no
\* user ever has more than one token row.
C19_LoginStages ==
    /\ \A u \in Usernames : Cardinality(TokensOf(u)) <= 1
    /\ last.op = "login" =>
          LET resolved == OrgOfSlug(last.slug) # {}
              member == \E o \in OrgOfSlug(last.slug) : <<last.username, o>> \in members
              had == {r \in last.before.userTokens : r.user = last.username}
          IN /\ ~resolved => (last.status = "NotFound" /\ ~last.validated)
             /\ (resolved /\ ~CredentialsValid) =>
                   (last.status = "ValidationError" /\ last.detail = BAD_CREDENTIALS)
             /\ (resolved /\ CredentialsValid /\ ~member) =>
                   (last.status = "ValidationError" /\ last.detail = NOT_MEMBER)
             /\ (last.status = "ok") <=> (resolved /\ CredentialsValid /\ member)
             /\ last.status # "ok" => (last.token = NoKey /\ Db = last.before)
             /\ last.status = "ok" =>
                   /\ last.token # NoKey
                   /\ TokensOf(last.username) =
                         {[user |-> last.username, key |-> last.token]}
                   /\ users = last.before.users
                   /\ members = last.before.members
                   /\ had # {} => userTokens = last.before.userTokens

\* a second successful login of a user returns the token of the first
C19_Witness ==
    /\ last.op = "login"
    /\ last.status = "ok"
    /\ userTokens = last.before.userTokens
    /\ \E i \in issued : i.user = last.username /\ i.key = last.token

\* the organizations for which the credentials of req are the stored ones
ValidFor(req) == {o \in Orgs : req.qUuid = Uuid(o) /\ req.qToken = Tok(token[o])}

AllDone == \A w \in Workers : workers[w].pc = "done"

\* C15: under every interleaving of the lookup and cache-write steps of
\* concurrent requests on a cold cache, a finished request has succeeded
\* exactly when it presented the stored token of its organization; a cache
\* entry never holds anything but the stored token of its organization; and
\* when all requests have finished the cache holds exactly the entries of
\* the organizations that were authenticated, whatever the order was.
C15_ConcurrentAuthentication ==
    /\ \A w \in Workers : workers[w].pc = "done" =>
          (workers[w].status = "ok" <=> ValidFor(workers[w].req) # {})
    /\ \A k \in DOMAIN cache :
          \E o \in Orgs : k = SettingsPk(o) /\ cache[k] = Tok(token[o])
    /\ AllDone =>
          DOMAIN cache =
             {SettingsPk(o) : o \in UNION {ValidFor(workers[w].req) : w \in Workers}}

\* two requests for the same organization with its token have both finished
C15_Witness ==
    /\ AllDone
    /\ \E w1, w2 \in Workers :
          /\ w1 # w2
          /\ workers[w1].req = workers[w2].req
          /\ ValidFor(workers[w1].req) # {}
          /\ workers[w1].status = "ok"
          /\ workers[w2].status = "ok"
          /\ workers[w1].inst # {}
          /\ workers[w2].inst # {}

\* C18: every user created by a registration under a slug has a membership
\* row for the organization of the slug, in every state, and a login of
\* that user under that slug with the right password is never refused.
C18_RegistrationAtomic ==
    /\ \A r \in registrations : <<r.username, r.org>> \in members
    /\ \A r \in registrations :
          (/\ last.op = "login"
           /\ last.username = r.username
           /\ dispatch(last.slug) = r.org
           /\ CredentialsValid) => last.status = "ok"

LongHeader == last.req.header # None /\ Len(Split(last.req.header)) >= 3
HeaderParts == Split(last.req.header)

\* C20: a request with an Authorization header of at least three parts is
\* accepted exactly when it has no 'organization' body field and header
\* parts 2 and 3 are the uuid and the stored token of an organization,
\* whatever its uuid and token query parameters are; on success the returned
\* organization is header part 2.
C20_HeaderOverridesQuery ==
    (IsAuth /\ LongHeader) =>
        /\ (last.status = "ok") <=>
              (/\ ~last.req.hasOrg
               /\ \E o \in Orgs : /\ HeaderParts[2] = Uuid(o)
                                  /\ HeaderParts[3] = Tok(token[o]))
        /\ last.status = "ok" => last.auth = HeaderParts[2]

\* the query parameters are valid for one organization, the header for
\* another one, and the request is accepted for the organization of the header
C20_Witness ==
    /\ IsAuth
    /\ last.status = "ok"
    /\ \E o, o2 \in Orgs :
          /\ o # o2
          /\ last.req.qUuid = Uuid(o2)
          /\ last.req.qToken = Tok(token[o2])
          /\ last.req.header = Join(<<Scheme, Uuid(o), Tok(token[o])>>)
          /\ last.auth = Uuid(o)

====
